---- MODULE Spec2Model ----
(***************************************************************************)
(* A model of the torrent client: the peer-wire session and the piece/block *)
(* request loop of TorrentClient.Download (package torrent), the info-hash  *)
(* re-serialization of NewTorrentClient, and the bencode decoder of         *)
(* internal/decoder.                                                        *)
(*                                                                          *)
(* Three specifications share the module:                                   *)
(*   Spec        one run of Download against an arbitrary tracker and peer  *)
(*   DecodeSpec  Decoder.Decode applied to bounded byte strings             *)
(*   InfoSpec    NewTorrentClient's info-hash input for bounded info dicts  *)
(***************************************************************************)
EXTENDS Integers, Sequences, FiniteSets, TLC

VARIABLES
    \* ---- Download (package torrent) ----
    pc,            \* position of the Download call
    result,        \* "none" while running, then "ok" | "err" | "panic"
    Length,        \* client.File.Info.Length
    PieceLength,   \* client.File.Info.PieceLength
    Peers,         \* client.Peers
    peersBytes,    \* the compact peer string of the tracker's answer
    dialed,        \* the addresses net.Dial was called with
    opened,        \* connections net.Dial returned
    closed,        \* connections conn.Close was called on
    hsReply,       \* what the handshake read delivered
    sent,          \* messages written to the connection, in order
    waitBitfield,  \* how waitForMessage(conn, Bitfield) ended
    waitUnchoke,   \* how waitForMessage(conn, Unchoke) ended
    desync,        \* the read cursor is not at a frame boundary
    peerGood,      \* every message the peer sent so far was the one due
    pieceSize, pieceCount, blockCount,
    pieceIndex,    \* Download's loop variable i
    blockIndex,    \* requestPiece's loop variable i
    pieceSizes,    \* the pieceSize passed to each requestPiece call
    pieceData,     \* requestPiece's data
    data,          \* Download's data
    peerExact,     \* every response so far: a whole frame, 9 + asked bytes
    fileWrites,    \* completed os.WriteFile calls
    file,          \* what os.WriteFile wrote
    \* ---- Decoder (package decoder) ----
    input,         \* the bencoded bytes given to New
    decoded,       \* the outcome of the call made on it
    origin,        \* what the input was written from (not program state)
    \* ---- NewTorrentClient ----
    infoDict,      \* the info dictionary of the metadata file
    hashed,        \* the bytes handed to sha1.Sum
    \* ---- one call of waitForMessage on a connection ----
    call           \* the frame on the wire, the reads, and what was returned

dlVars  == <<pc, result, Length, PieceLength, Peers, peersBytes, dialed,
             peerGood, opened, closed, hsReply, sent,
             waitBitfield, waitUnchoke, desync, pieceSize, pieceCount, blockCount,
             pieceIndex, blockIndex, pieceSizes, pieceData, data,
             peerExact, fileWrites, file>>
decVars == <<input, decoded, origin>>
infVars == <<infoDict, hashed>>
callVars == <<call>>
vars    == <<dlVars, decVars, infVars, callVars>>

----------------------------------------------------------------------------
(* Bounds of the model *)

\* Download: files of at most this many whole pieces.
MaxPieces == 2

\* Decoder: the longest s of an input 'i' s 'e'.
MaxIntLen == 3

\* Decoder: the most bytes following the ':' of an input '<n>:<bytes>'.
MaxStrLen == 3

\* Decoder: the longest input drawn from the whole bencode alphabet.
MaxInput == 4

\* NewTorrentClient: the longest name of an info dictionary.
MaxNameLen == 2

\* Decoder: the most key/value pairs of a dictionary written as input.
MaxPairs == 2

----------------------------------------------------------------------------
(* Program constants *)

Bitfield   == 5
Interested == 2
Unchoke    == 1
Request    == 6
BlockSize  == 16384
HandshakeLen == 68

----------------------------------------------------------------------------
(* Arithmetic of Download and requestPiece *)

\* int(math.Ceil(float64(a) / float64(b))) for a >= 0, b >= 1 (exact while the
\* operands are far below 2^53, as they are here).
CeilDiv(a, b) == (a + b - 1) \div b

\* A conversion to uint32 of an int in 0 .. 2^31 - 1, the range of every
\* index, offset and length of the model: the value is kept (negative values
\* would wrap, and none arises: pieceIndex, blockIndex >= 0, BlockLength >= 1
\* inside the block loop).
U32(x) == IF x >= 0 THEN x ELSE (x + 2147483647) + 1

\* binary.BigEndian.Uint32 of a zeroed 4-byte buffer of which a read filled
\* only the first n bytes of the big-endian encoding of L.
BigEndianPrefix(L, n) ==
    LET unit == 256 ^ (4 - n) IN (L \div unit) * unit

\* Download with a truncating division in place of math.Ceil at line 205.
PieceCountFloor(len, pl) == len \div pl

\* Download, lines 203-205.
PieceCount(len, pl) == CeilDiv(len, pl)

\* Download, line 213: the size of the last piece.
LastPieceSize(len, pl) == len % pl

\* Download, lines 212-214: the size passed to requestPiece for piece i.
PieceSizeFor(i, count, cur) ==
    IF i = count - 1 THEN LastPieceSize(Length, PieceLength) ELSE cur

\* Download, line 216.
BlockCountOf(size) == CeilDiv(size, BlockSize)

\* requestPiece without lines 238-241: every block is asked for in full.
BlockLengthFull(b, size, count) == BlockSize

\* requestPiece, lines 238-241.
BlockLength(b, size, count) ==
    IF b = count - 1 THEN size - (count - 1) * BlockSize ELSE BlockSize

\* requestPiece, lines 243-255: the Request message.
RequestMsg(p, b, size, count) ==
    [type |-> "request", LengthPrefix |-> 13, ID |-> Request,
     Index |-> U32(p), Begin |-> U32(b * BlockSize),
     Length |-> U32(BlockLength(b, size, count)),
     size |-> 4 + 1 + 4 + 4 + 4]

\* client.InfoHash, line 59: the 20 bytes of the SHA-1 digest, byte i of it
\* written [hash |-> i].
InfoHash == [i \in 1..20 |-> [hash |-> i]]

\* A byte given by its value, and a byte given as a character of a literal.
Byte(v) == [v |-> v]
Char(c) == [c |-> c]
Chars(str) == [i \in 1..Len(str) |-> Char(str[i])]

\* generatePeerID, lines 76-80.
PeerID ==
    Chars(<<"0", "0", "1", "1", "2", "2", "3", "3", "4", "4",
            "5", "5", "6", "6", "7", "7", "8", "8", "9", "9">>)

\* []byte("BitTorrent protocol"), line 127.
Pstr ==
    Chars(<<"B", "i", "t", "T", "o", "r", "r", "e", "n", "t", " ",
            "p", "r", "o", "t", "o", "c", "o", "l">>)

\* make([]byte, n): n zero bytes.
Zeros(n) == [i \in 1..n |-> Byte(0)]

\* The bytes of lines 125-130 with the last two appends exchanged.
HandshakeBytesSwapped ==
    <<Byte(19)>> \o Pstr \o Zeros(8) \o PeerID \o InfoHash

\* Handshake, lines 125-130: the bytes of msg.
HandshakeBytes == <<Byte(19)>> \o Pstr \o Zeros(8) \o InfoHash \o PeerID

\* Handshake, lines 125-132: the message written.
HandshakeMsg ==
    [type |-> "handshake", pstrlen |-> 19, pstr |-> "BitTorrent protocol",
     reserved |-> 8, infoHash |-> 20, peerID |-> 20,
     size |-> 1 + 19 + 8 + 20 + 20, bytes |-> HandshakeBytes]

\* interested, line 173.
InterestedMsg == [type |-> "interested", LengthPrefix |-> 1, ID |-> Interested]

\* strconv / fmt "%d": the decimal digits of an integer.
DigitChar(d) == <<"0", "1", "2", "3", "4", "5", "6", "7", "8", "9">>[d + 1]

RECURSIVE Itoa(_)
Itoa(n) ==
    IF n < 0 THEN <<"-">> \o Itoa(0 - n)
    ELSE IF n < 10 THEN <<DigitChar(n)>>
    ELSE Itoa(n \div 10) \o <<DigitChar(n % 10)>>

\* bencode.Marshal of an integer, of a byte string and of pairs given in
\* this order.
EncInt(n)  == <<"i">> \o Itoa(n) \o <<"e">>
EncStr(bs) == Itoa(Len(bs)) \o <<":">> \o bs
EncVal(v)  == IF v.t = "int" THEN EncInt(v.n) ELSE EncStr(v.s)

\* The two port bytes read low byte first.
LittleEndianUint16(b0, b1) == b1 * 256 + b0

\* binary.BigEndian.Uint16, line 111.
BigEndianUint16(b0, b1) == b0 * 256 + b1

\* fmt.Sprintf("%d.%d.%d.%d:%d", ...), line 112, of one 6-byte entry.
Address(e) ==
    Itoa(e[1]) \o <<".">> \o Itoa(e[2]) \o <<".">> \o Itoa(e[3]) \o <<".">>
    \o Itoa(e[4]) \o <<":">> \o Itoa(BigEndianUint16(e[5], e[6]))

\* parsePeers, lines 108-115: one address per 6-byte entry; a last entry of
\* fewer than 6 bytes is a slice or index out of range.
RECURSIVE parsePeers(_)
parsePeers(bytes) ==
    IF Len(bytes) = 0 THEN [st |-> "ok", peers |-> <<>>]
    ELSE IF Len(bytes) < 6 THEN [st |-> "panic", peers |-> <<>>]
    ELSE LET rest == parsePeers(SubSeq(bytes, 7, Len(bytes))) IN
         [st    |-> rest.st,
          peers |-> <<Address(SubSeq(bytes, 1, 6))>> \o rest.peers]

----------------------------------------------------------------------------
(* The environment of Download: tracker answers, file sizes, peer frames *)

PeerInputs ==
    { <<>>,
      <<192, 168, 1, 1, 26, 225>>,
      <<192, 168, 1, 1, 26, 225, 10, 0, 0, 2, 0, 80>>,
      <<192, 168, 1, 1, 26, 225, 10>> }

PieceLengths == {1, BlockSize, 20000}

FileLengths(pl) ==
    {0, 1} \cup {k * pl + d : k \in 1..MaxPieces, d \in {-1, 0}}

\* How many bytes one conn.Read into a 4-byte buffer may deliver.
ReadLens == {1, 3, 4}

\* Frames a peer may send while the client waits for Bitfield or Unchoke:
\* keep-alive (0), id only (1), id and payload (2, 261, 300).
WaitFrameLens == {0, 1, 2, 261, 300}
FrameIds == {Unchoke, Bitfield, 7}

\* Frames a peer may send in answer to a Request of bl bytes.
RespFrameLens(bl) == {0, 5, 9, 9 + bl}

\* What the peer sent as handshake reply and how much one Read delivered.
HsReplies ==
    { [sentLen |-> 68, n |-> 68, pstrOK |-> TRUE],
      [sentLen |-> 68, n |-> 68, pstrOK |-> FALSE],
      [sentLen |-> 68, n |-> 1,  pstrOK |-> TRUE],
      [sentLen |-> 67, n |-> 67, pstrOK |-> TRUE] }

NoReply == [sentLen |-> 0, n |-> 0, pstrOK |-> FALSE]
NoWait  == "none"

----------------------------------------------------------------------------
(* Idle values of the other specifications' variables *)

Raw     == [kind |-> "raw"]
DecIdle == input = <<>> /\ decoded = [op |-> "none"] /\ origin = Raw
NoCall  == [op |-> "none"]
CallIdle == call = NoCall
InfIdle == infoDict = <<>> /\ hashed = [st |-> "none"]
DlIdle  ==
    /\ pc = "idle" /\ result = "none" /\ Length = 0 /\ PieceLength = 1
    /\ Peers = <<>> /\ peersBytes = <<>> /\ dialed = <<>> /\ peerGood = TRUE
    /\ opened = 0 /\ closed = 0 /\ hsReply = NoReply
    /\ sent = <<>> /\ waitBitfield = NoWait /\ waitUnchoke = NoWait
    /\ desync = FALSE /\ pieceSize = 0 /\ pieceCount = 0 /\ blockCount = 0
    /\ pieceIndex = 0 /\ blockIndex = 0 /\ pieceSizes = <<>>
    /\ pieceData = <<>> /\ data = <<>> /\ peerExact = TRUE
    /\ fileWrites = 0 /\ file = <<>>

----------------------------------------------------------------------------
(* Download *)

\* The client as NewTorrentClient returned it, Download not yet called.
Init ==
    /\ PieceLength \in PieceLengths
    /\ Length \in FileLengths(PieceLength)
    /\ pc = "start" /\ result = "none"
    /\ Peers = <<>> /\ peersBytes = <<>> /\ dialed = <<>> /\ peerGood = TRUE
    /\ opened = 0 /\ closed = 0 /\ hsReply = NoReply
    /\ sent = <<>> /\ waitBitfield = NoWait /\ waitUnchoke = NoWait
    /\ desync = FALSE /\ pieceSize = 0 /\ pieceCount = 0 /\ blockCount = 0
    /\ pieceIndex = 0 /\ blockIndex = 0 /\ pieceSizes = <<>>
    /\ pieceData = <<>> /\ data = <<>> /\ peerExact = TRUE
    /\ fileWrites = 0 /\ file = <<>>
    /\ DecIdle /\ InfIdle /\ CallIdle

loopVars == <<pieceSize, pieceCount, blockCount, pieceIndex, blockIndex,
              pieceSizes, pieceData, data, peerExact>>
fileVars == <<fileWrites, file>>
peerVars == <<hsReply, waitBitfield, waitUnchoke, desync, peerGood>>
others   == <<Length, PieceLength, decVars, infVars, callVars>>

\* A return before `defer conn.Close()` (line 195) was reached.
ReturnEarly(res) == pc' = "done" /\ result' = res /\ closed' = closed

\* A return, or a panic unwinding, after line 195: the deferred Close runs.
ReturnDeferred(res) == pc' = "done" /\ result' = res /\ closed' = closed + 1

\* Download, lines 183-187, and ConnectTracker, lines 82-106.
ConnectTracker ==
    /\ pc = "start"
    /\ \/ /\ ReturnEarly("err")
          /\ UNCHANGED <<Peers, peersBytes>>
       \/ \E bytes \in PeerInputs :
             /\ peersBytes' = bytes
             /\ \/ /\ parsePeers(bytes).st = "ok"
                   /\ Peers' = parsePeers(bytes).peers
                   /\ pc' = "dial"
                   /\ UNCHANGED <<result, closed>>
                \/ /\ parsePeers(bytes).st = "panic"
                   /\ ReturnEarly("panic")
                   /\ UNCHANGED Peers
    /\ UNCHANGED <<dialed, opened, sent, peerVars, loopVars, fileVars, others>>

\* Handshake, lines 118-123.
Dial ==
    /\ pc = "dial"
    /\ \/ /\ Peers = <<>>                 \* client.Peers[0]: index out of range
          /\ ReturnEarly("panic")
          /\ UNCHANGED <<opened, dialed>>
       \/ /\ Peers # <<>>                 \* net.Dial fails
          /\ dialed' = Append(dialed, Peers[1])
          /\ ReturnEarly("err")
          /\ UNCHANGED opened
       \/ /\ Peers # <<>>
          /\ dialed' = Append(dialed, Peers[1])
          /\ opened' = opened + 1
          /\ pc' = "hs_write"
          /\ UNCHANGED <<result, closed>>
    /\ UNCHANGED <<Peers, peersBytes, sent, peerVars, loopVars, fileVars,
                   others>>

\* Handshake, lines 125-134.
HandshakeWrite ==
    /\ pc = "hs_write"
    /\ \/ /\ sent' = Append(sent, HandshakeMsg)
          /\ pc' = "hs_read"
          /\ UNCHANGED <<result, closed>>
       \/ /\ ReturnEarly("err")           \* return nil, err: conn is dropped open
          /\ UNCHANGED sent
    /\ UNCHANGED <<Peers, peersBytes, dialed, opened, peerVars, loopVars,
                   fileVars, others>>

\* Handshake, lines 136-143, and Download, lines 189-195.
HandshakeRead ==
    /\ pc = "hs_read"
    /\ \/ /\ ReturnEarly("err")           \* conn.Read fails
          /\ UNCHANGED <<hsReply, desync, peerGood>>
       \/ /\ \E r \in HsReplies :
                /\ hsReply' = r
                /\ desync' = (r.n < r.sentLen)
                /\ peerGood' = (r.sentLen = HandshakeLen /\ r.pstrOK)
          /\ pc' = "wait_bitfield"
          /\ UNCHANGED <<result, closed>>
    /\ UNCHANGED <<Peers, peersBytes, dialed, opened, sent, waitBitfield,
                   waitUnchoke, loopVars, fileVars, others>>

\* Byte k (1..4) of the 4-byte big-endian encoding of L.
BEByte(L, k) == (L \div 256 ^ (4 - k)) % 256

\* waitForMessage, lines 146-170, when both reads return without error: the
\* peer has put the frame <L, id ...> on the wire, conn.Read(lengthBuf)
\* delivers n of the 4 length bytes and conn.Read(message) delivers m bytes.
\* got is message[0], the byte that follows the n bytes read first; consumed
\* counts the bytes taken off the connection.
waitForMessage(messageId, L, id, n, m) ==
    LET prefixLength == BigEndianPrefix(L, n)
        got          == IF n = 4 THEN id ELSE BEByte(L, n + 1)
    IN  IF prefixLength = 0
        THEN \* conn.Read of an empty buffer returns (0, nil); message[0]
             [ret |-> "panic", io |-> FALSE, got |-> -1, consumed |-> n]
        ELSE [ret |-> IF got = messageId THEN "nil" ELSE "err",
              io |-> FALSE, got |-> got, consumed |-> n + m]

\* waitForMessage, lines 149-153 and 159-163: a conn.Read returns an error.
ReadFailed(consumed) ==
    [ret |-> "err", io |-> TRUE, got |-> -1, consumed |-> consumed]

\* How many bytes conn.Read(message) may deliver into a buffer of this size:
\* none into an empty buffer, else from one byte to all of them.
BodyReads(prefixLength) == IF prefixLength = 0 THEN {0} ELSE {1, prefixLength}

\* The outcomes of one call for one frame on the wire.
CallOutcomes(messageId, L, id) ==
    { ReadFailed(0) }
    \cup { ReadFailed(n) : n \in {k \in ReadLens : BigEndianPrefix(L, k) > 0} }
    \cup UNION { { waitForMessage(messageId, L, id, n, m)
                     : m \in BodyReads(BigEndianPrefix(L, n)) }
                 : n \in ReadLens }

\* What Download sees of one call: what it returned, whether the read
\* cursor is off the frame boundaries afterwards, and whether the frame the
\* peer had sent was the awaited message.
WaitOutcomes(messageId) ==
    UNION { { [ret    |-> o.ret,
               desync |-> desync \/ o.consumed \notin {0, 4 + f[1]},
               good   |-> peerGood /\ f[1] >= 1 /\ f[2] = messageId]
              : o \in CallOutcomes(messageId, f[1], f[2]) }
            : f \in WaitFrameLens \X FrameIds }

\* Download, line 197: the error waitForMessage returns is dropped.
AwaitBitfield ==
    /\ pc = "wait_bitfield"
    /\ \E o \in WaitOutcomes(Bitfield) :
          /\ desync' = o.desync
          /\ peerGood' = o.good
          /\ waitBitfield' = o.ret
          /\ \/ /\ o.ret = "panic"
                /\ ReturnDeferred("panic")
             \/ /\ o.ret # "panic"
                /\ pc' = "interested"
                /\ UNCHANGED <<result, closed>>
    /\ UNCHANGED <<Peers, peersBytes, dialed, opened, sent, hsReply,
                   waitUnchoke, loopVars, fileVars, others>>

\* interested, lines 172-180, and Download, line 199: the error is dropped.
SendInterested ==
    /\ pc = "interested"
    /\ \/ sent' = Append(sent, InterestedMsg)
       \/ UNCHANGED sent                  \* conn.Write fails
    /\ pc' = "wait_unchoke"
    /\ UNCHANGED <<result, closed, Peers, peersBytes, dialed, opened,
                   peerVars, loopVars, fileVars, others>>

\* Download, line 201: the error waitForMessage returns is dropped.
AwaitUnchoke ==
    /\ pc = "wait_unchoke"
    /\ \E o \in WaitOutcomes(Unchoke) :
          /\ desync' = o.desync
          /\ peerGood' = o.good
          /\ waitUnchoke' = o.ret
          /\ \/ /\ o.ret = "panic"
                /\ ReturnDeferred("panic")
             \/ /\ o.ret # "panic"
                /\ pc' = "compute"
                /\ UNCHANGED <<result, closed>>
    /\ UNCHANGED <<Peers, peersBytes, dialed, opened, sent, hsReply,
                   waitBitfield, loopVars, fileVars, others>>

\* Download, lines 203-209.
ComputePieceCount ==
    /\ pc = "compute"
    /\ pieceSize' = PieceLength
    /\ pieceCount' = PieceCount(Length, PieceLength)
    /\ data' = <<>>
    /\ pieceIndex' = 0
    /\ pc' = "pieces"
    /\ UNCHANGED <<result, closed, Peers, peersBytes, dialed, opened, sent,
                   peerVars, blockCount, blockIndex, pieceSizes, pieceData,
                   peerExact, fileVars, others>>

\* Download, lines 211-218: the loop test, and the call of requestPiece.
NextPiece ==
    /\ pc = "pieces"
    /\ \/ /\ pieceIndex < pieceCount
          /\ pieceSize' = PieceSizeFor(pieceIndex, pieceCount, pieceSize)
          /\ blockCount' = BlockCountOf(pieceSize')
          /\ pieceSizes' = Append(pieceSizes, pieceSize')
          /\ pieceData' = <<>>
          /\ blockIndex' = 0
          /\ pc' = "blocks"
       \/ /\ pieceIndex >= pieceCount
          /\ pc' = "write"
          /\ UNCHANGED <<pieceSize, blockCount, pieceSizes, pieceData,
                         blockIndex>>
    /\ UNCHANGED <<result, closed, Peers, peersBytes, dialed, opened, sent,
                   peerVars, pieceCount, pieceIndex, data, peerExact,
                   fileVars, others>>

\* requestPiece, lines 237-264: one Request is written.
SendRequest ==
    /\ pc = "blocks"
    /\ blockIndex < blockCount
    /\ \/ /\ sent' = Append(sent, RequestMsg(pieceIndex, blockIndex,
                                             pieceSize, blockCount))
          /\ pc' = "response"
          /\ UNCHANGED <<result, closed>>
       \/ /\ ReturnDeferred("err")        \* conn.Write fails
          /\ UNCHANGED sent
    /\ UNCHANGED <<Peers, peersBytes, dialed, opened, peerVars, loopVars,
                   fileVars, others>>

\* requestPiece, lines 266-277: the response to the Request is read.
ReadResponse ==
    /\ pc = "response"
    /\ LET bl == BlockLength(blockIndex, pieceSize, blockCount) IN
       \/ /\ ReturnDeferred("err")        \* lines 267-269 or 273-275
          /\ UNCHANGED <<desync, peerGood, pieceData, blockIndex, peerExact>>
       \/ \E L \in RespFrameLens(bl), n \in ReadLens :
             LET prefixLength == BigEndianPrefix(L, n) IN
             /\ desync' = (desync \/ n < 4)
             /\ peerGood' = (peerGood /\ L = 9 + bl)
             /\ peerExact' = (peerExact /\ ~desync /\ n = 4 /\ L = 9 + bl)
             /\ \/ /\ prefixLength < 9    \* result[9:]: slice out of range
                   /\ ReturnDeferred("panic")
                   /\ UNCHANGED <<pieceData, blockIndex>>
                \/ /\ prefixLength >= 9
                   /\ pieceData' = Append(pieceData,
                         [len     |-> prefixLength - 9,   \* len(result[9:])
                          at      |-> n + 9,     \* its offset from the cursor
                          body    |-> L,         \* the body the peer framed
                          aligned |-> ~desync,   \* cursor was at the frame
                          req     |-> <<pieceIndex, blockIndex>>])
                   /\ blockIndex' = blockIndex + 1
                   /\ pc' = "blocks"
                   /\ UNCHANGED <<result, closed>>
    /\ UNCHANGED <<Peers, peersBytes, dialed, opened, sent, hsReply,
                   waitBitfield, waitUnchoke, pieceSize, pieceCount,
                   blockCount, pieceIndex, pieceSizes, data, fileVars,
                   others>>

\* requestPiece, line 280, and Download, lines 220-225.
PieceDone ==
    /\ pc = "blocks"
    /\ blockIndex >= blockCount
    /\ data' = data \o pieceData
    /\ pieceData' = <<>>                  \* requestPiece's local is gone
    /\ pieceIndex' = pieceIndex + 1
    /\ pc' = "pieces"
    /\ UNCHANGED <<result, closed, Peers, peersBytes, dialed, opened, sent,
                   peerVars, pieceSize, pieceCount, blockCount, blockIndex,
                   pieceSizes, peerExact, fileVars, others>>

\* Download, lines 227-231.
WriteFile ==
    /\ pc = "write"
    /\ \/ /\ fileWrites' = fileWrites + 1
          /\ file' = data
          /\ ReturnDeferred("ok")
       \/ /\ ReturnDeferred("err")        \* os.WriteFile fails
          /\ UNCHANGED fileVars
    /\ UNCHANGED <<Peers, peersBytes, dialed, opened, sent, peerVars,
                   loopVars, others>>

Next ==
    \/ ConnectTracker
    \/ Dial
    \/ HandshakeWrite
    \/ HandshakeRead
    \/ AwaitBitfield
    \/ SendInterested
    \/ AwaitUnchoke
    \/ ComputePieceCount
    \/ NextPiece
    \/ SendRequest
    \/ ReadResponse
    \/ PieceDone
    \/ WriteFile

Spec == Init /\ [][Next]_vars

----------------------------------------------------------------------------
(* Properties of Download *)

RECURSIVE SumLen(_)
SumLen(chunks) ==
    IF chunks = <<>> THEN 0 ELSE Head(chunks).len + SumLen(Tail(chunks))

Requests == SelectSeq(sent, LAMBDA m : m.type = "request")
Sends(t) == Len(SelectSeq(sent, LAMBDA m : m.type = t))

\* The piece length the design prescribes for piece p of a file.
SpecPieceLength(p) ==
    IF p = CeilDiv(Length, PieceLength) - 1 /\ Length % PieceLength # 0
    THEN Length % PieceLength
    ELSE PieceLength

\* C1: for fileLength > 0 and pieceLength > 0, the piece length Download uses
\* for every piece is pieceLength, except for the last piece, where it is
\* fileLength mod pieceLength, or pieceLength when that remainder is zero.
C1_PieceLengthUsed ==
    \A k \in 1..Len(pieceSizes) :
        Length > 0 => pieceSizes[k] = SpecPieceLength(k - 1)

\* The peer and the transport did everything right so far: a whole
\* well-formed handshake reply, Bitfield and Unchoke as awaited, every read
\* delivered in full, every Request answered by a frame of exactly the
\* requested block bytes.
WellBehavedPeer ==
    /\ hsReply \in {NoReply, [sentLen |-> 68, n |-> 68, pstrOK |-> TRUE]}
    /\ waitBitfield \in {"none", "nil"}
    /\ waitUnchoke \in {"none", "nil"}
    /\ ~desync
    /\ peerExact

\* C2: no partial success. Against a peer that answers every Request with
\* exactly the requested block bytes, a finished Download has either written
\* the file once, with exactly fileLength bytes, or written nothing and
\* failed (an abnormal termination is counted as a failure here).
C2_NoPartialSuccess ==
    /\ fileWrites <= 1
    /\ (pc = "done" /\ WellBehavedPeer) =>
          \/ fileWrites = 1 /\ result = "ok" /\ SumLen(file) = Length
          \/ fileWrites = 0 /\ result # "ok"

\* C3: a failure while awaiting Bitfield, sending Interested or awaiting
\* Unchoke ends Download with an error at once: nothing further is sent (no
\* Request in particular) and no file is written.
C3_SetupFailureAborts ==
    /\ waitBitfield = "err" =>
          /\ pc = "done" /\ result = "err"
          /\ Sends("interested") = 0 /\ Sends("request") = 0 /\ fileWrites = 0
    /\ (pc \notin {"start", "dial", "hs_write", "hs_read", "wait_bitfield",
                   "interested"}
        /\ waitBitfield = "nil" /\ Sends("interested") = 0) =>
          /\ pc = "done" /\ result = "err"
          /\ Sends("request") = 0 /\ fileWrites = 0
    /\ waitUnchoke = "err" =>
          /\ pc = "done" /\ result = "err"
          /\ Sends("request") = 0 /\ fileWrites = 0

Rank(m) ==
    CASE m.type = "handshake"  -> 1
      [] m.type = "interested" -> 2
      [] m.type = "request"    -> 3

\* C4: the session is linear. The handshake is sent once and first,
\* Interested at most once and only after a Bitfield message was received,
\* a Request only after an Unchoke message was received, and the messages
\* sent never step back to an earlier stage.
C4_LinearSession ==
    /\ sent # <<>> => sent[1].type = "handshake"
    /\ Sends("handshake") <= 1
    /\ Sends("interested") <= 1
    /\ Sends("interested") > 0 => waitBitfield = "nil"
    /\ Sends("request") > 0 => waitUnchoke = "nil"
    /\ \A a, b \in 1..Len(sent) : a < b => Rank(sent[a]) <= Rank(sent[b])

\* At most one Request is unanswered: each Request but the last sent has had
\* one response read for it.
OneOutstanding ==
    Len(Requests) - (Len(data) + Len(pieceData)) \in {0, 1}

\* The (piece, offset) pairs requested increase strictly, lexicographically.
OrderedRequests ==
    \A a, b \in 1..Len(Requests) :
        a < b => \/ Requests[a].Index < Requests[b].Index
                 \/ /\ Requests[a].Index = Requests[b].Index
                    /\ Requests[a].Begin < Requests[b].Begin

\* The blocks of the file: piece p in 0..pieceCount-1, block b in
\* 0..blockCount-1 of that piece.
SpecBlocks ==
    { <<p, b>> \in (0 .. CeilDiv(Length, PieceLength) - 1)
                   \X (0 .. CeilDiv(PieceLength, BlockSize) - 1) :
        b < CeilDiv(SpecPieceLength(p), BlockSize) }

RequestedBlocks ==
    { <<Requests[k].Index, Requests[k].Begin \div BlockSize>>
        : k \in 1..Len(Requests) }

\* C5: requests are sequential and ordered. At most one Request is
\* outstanding, the (piece, block) pairs requested increase strictly, and a
\* Download that succeeds has requested every block of every piece
\* 0..pieceCount-1.
C5_SequentialOrderedRequests ==
    /\ OneOutstanding
    /\ OrderedRequests
    /\ RequestedBlocks \subseteq SpecBlocks
    /\ result = "ok" => RequestedBlocks = SpecBlocks

\* C6: in every terminal state of Download every connection that was opened
\* has been closed.
C6_ConnectionReleased ==
    pc = "done" => closed = opened

\* The handshake reply is not a full, well-formed 68-byte handshake.
MalformedReply ==
    hsReply # NoReply /\ (hsReply.n < HandshakeLen \/ ~hsReply.pstrOK)

\* C10: on a malformed handshake reply Handshake returns an error and
\* Download does not go on to await Bitfield.
C10_MalformedHandshakeRejected ==
    MalformedReply => pc = "done" /\ result = "err" /\ waitBitfield = "none"

\* The parts of C5 that do not depend on the size of the last piece.
SequentialRequests ==
    OneOutstanding /\ OrderedRequests /\ RequestedBlocks \subseteq SpecBlocks

----------------------------------------------------------------------------
(* The bencode decoder (internal/decoder).  A byte is a one-character       *)
(* string; "NUL" stands for the zero byte of a freshly made buffer.         *)

Array == "l"
IntB  == "i"    \* the source's Int (the name of the set of integers here)
Dict  == "d"
End   == "e"

Digits == {"0", "1", "2", "3", "4", "5", "6", "7", "8", "9"}

DigitVal(c) ==
    CASE c = "0" -> 0 [] c = "1" -> 1 [] c = "2" -> 2 [] c = "3" -> 3
      [] c = "4" -> 4 [] c = "5" -> 5 [] c = "6" -> 6 [] c = "7" -> 7
      [] c = "8" -> 8 [] c = "9" -> 9

RECURSIVE DecimalVal(_)
DecimalVal(ds) ==
    IF ds = <<>> THEN 0
    ELSE DecimalVal(SubSeq(ds, 1, Len(ds) - 1)) * 10 + DigitVal(ds[Len(ds)])

\* strconv.Atoi: an optional '+' or '-', then one or more decimal digits
\* (the range error of values beyond an int is out of the model's reach).
Atoi(str) ==
    LET signed == str # <<>> /\ str[1] \in {"-", "+"}
        digs   == IF signed THEN Tail(str) ELSE str
    IN  IF digs = <<>> \/ \E k \in 1..Len(digs) : digs[k] \notin Digits
        THEN [ok |-> FALSE, n |-> 0]
        ELSE [ok |-> TRUE,
              n  |-> IF signed /\ str[1] = "-" THEN 0 - DecimalVal(digs)
                     ELSE DecimalVal(digs)]

\* bufio.Reader.ReadBytes(delim) with the cursor after pos bytes: the bytes
\* up to and including the first delim, or an error at the end of the input.
ReadBytes(in, pos, delim) ==
    LET hits == {k \in (pos + 1)..Len(in) : in[k] = delim} IN
    IF hits = {} THEN [ok |-> FALSE, bytes |-> <<>>, pos |-> Len(in)]
    ELSE LET k == CHOOSE h \in hits : \A g \in hits : h <= g
         IN  [ok |-> TRUE, bytes |-> SubSeq(in, pos + 1, k), pos |-> k]

Fail(pos)    == [st |-> "err", val |-> [t |-> "none"], pos |-> pos]
Panic(pos)   == [st |-> "panic", val |-> [t |-> "none"], pos |-> pos]
Ok(val, pos) == [st |-> "ok", val |-> val, pos |-> pos]

IntVal(n)  == [t |-> "int", n |-> n]
StrVal(bs) == [t |-> "str", s |-> bs]
ListVal(l) == [t |-> "list", l |-> l]
DictVal(m) == [t |-> "dict", m |-> m]

\* Decoder.decodeInt, lines 28-50 (the 'i' is consumed already).
decodeInt(in, pos) ==
    LET rb == ReadBytes(in, pos, End) IN
    IF ~rb.ok THEN Fail(rb.pos)
    ELSE LET numStr == SubSeq(rb.bytes, 1, Len(rb.bytes) - 1) IN
         IF Len(numStr) > 1 /\ numStr[1] = "0" THEN Fail(rb.pos)
         ELSE LET a == Atoi(numStr) IN
              IF ~a.ok THEN Fail(rb.pos) ELSE Ok(IntVal(a.n), rb.pos)

\* bufio.Reader.Read into a buffer of `length` zero bytes, the whole input
\* being buffered: it copies what is there, up to length bytes, and reports
\* an error only when asked for bytes and none is left.
ReadInto(in, pos, length) ==
    LET avail == Len(in) - pos
        n     == IF length < avail THEN length ELSE avail
    IN  IF length > 0 /\ avail = 0
        THEN [ok |-> FALSE, buf |-> <<>>, pos |-> pos]
        ELSE [ok  |-> TRUE,
              buf |-> SubSeq(in, pos + 1, pos + n)
                      \o [k \in 1..(length - n) |-> "NUL"],
              pos |-> pos + n]

\* Decoder.decodeString, lines 52-80.
decodeString(in, pos) ==
    LET rb == ReadBytes(in, pos, ":") IN
    IF ~rb.ok THEN Fail(rb.pos)
    ELSE LET a == Atoi(SubSeq(rb.bytes, 1, Len(rb.bytes) - 1)) IN
         IF ~a.ok THEN Fail(rb.pos)
         ELSE IF a.n < 0 THEN Panic(rb.pos)     \* make([]byte, length)
         ELSE LET rd == ReadInto(in, rb.pos, a.n) IN
              IF ~rd.ok THEN Fail(rd.pos) ELSE Ok(StrVal(rd.buf), rd.pos)

RECURSIVE Decode(_, _), arrayLoop(_, _, _), dictLoop(_, _, _)

\* Decoder.decodeArray, lines 82-112: the loop, with the list so far.
arrayLoop(in, pos, list) ==
    IF pos >= Len(in) THEN Fail(pos)
    ELSE IF in[pos + 1] = End THEN Ok(ListVal(list), pos + 1)
    ELSE LET v == Decode(in, pos) IN
         IF v.st = "panic" THEN v
         ELSE IF v.st = "err" THEN Fail(v.pos)
         ELSE arrayLoop(in, v.pos, Append(list, v.val))

\* decodeDict without the test of lines 140-144: any key is taken.
dictLoopAnyKey(in, pos, m) ==
    IF pos >= Len(in) THEN Fail(pos)
    ELSE IF in[pos + 1] = End THEN Ok(DictVal(m), pos + 1)
    ELSE LET k == Decode(in, pos) IN
         IF k.st # "ok" THEN Fail(k.pos)
         ELSE LET key == IF k.val.t = "str" THEN k.val.s ELSE <<>>
                  v   == Decode(in, k.pos) IN
              IF v.st # "ok" THEN Fail(v.pos)
              ELSE dictLoop(in, v.pos,
                            [x \in DOMAIN m \cup {key} |->
                                IF x = key THEN v.val ELSE m[x]])

\* Decoder.decodeDict, lines 114-156: the loop, with the map so far.
dictLoop(in, pos, m) ==
    IF pos >= Len(in) THEN Fail(pos)
    ELSE IF in[pos + 1] = End THEN Ok(DictVal(m), pos + 1)
    ELSE LET k == Decode(in, pos) IN
         IF k.st = "panic" THEN k
         ELSE IF k.st = "err" THEN Fail(k.pos)
         ELSE IF k.val.t # "str" THEN Fail(k.pos)
         ELSE LET v == Decode(in, k.pos) IN
              IF v.st = "panic" THEN v
              ELSE IF v.st = "err" THEN Fail(v.pos)
              ELSE dictLoop(in, v.pos,
                            [x \in DOMAIN m \cup {k.val.s} |->
                                IF x = k.val.s THEN v.val ELSE m[x]])

decodeArray(in, pos) == arrayLoop(in, pos, <<>>)
decodeDict(in, pos)  == dictLoop(in, pos, <<>>)

\* Decoder.Decode, lines 158-183.
Decode(in, pos) ==
    IF pos >= Len(in) THEN Fail(pos)
    ELSE LET b == in[pos + 1] IN
         CASE b \in Digits -> decodeString(in, pos)
           [] b = IntB     -> decodeInt(in, pos + 1)
           [] b = Array    -> decodeArray(in, pos + 1)
           [] b = Dict     -> decodeDict(in, pos + 1)
           [] OTHER        -> Fail(pos + 1)

Seqs(S, lo, hi) == UNION {[1..n -> S] : n \in lo..hi}

IntChars == {"0", "2", "3", "4", "5", "-", "+", "X"}
IntInputs == {<<IntB>> \o str \o <<End>> : str \in Seqs(IntChars, 0, MaxIntLen)}

StrInputs ==
    {len \o <<":">> \o body : len \in Seqs({"0", "2", "3", "x"}, 1, 2),
                              body \in Seqs({"a", "b"}, 0, MaxStrLen)}

AnyInputs == Seqs({"l", "d", "e", "i", "1", ":", "a"}, 0, MaxInput)

\* Byte-string keys, and values with their bencoding, to write dictionaries.
DictKeys == {<<>>, <<"a">>, <<"b", "c">>}
Encoded ==
    { [enc |-> EncInt(7),                     val |-> IntVal(7)],
      [enc |-> EncStr(<<"x">>),               val |-> StrVal(<<"x">>)],
      [enc |-> <<"l", "e">>,                  val |-> ListVal(<<>>)],
      [enc |-> <<"l", "i", "7", "e", "e">>,   val |-> ListVal(<<IntVal(7)>>)],
      [enc |-> <<"d", "e">>,                  val |-> DictVal(<<>>)] }
NotStrings == {e \in Encoded : e.val.t # "str"}

PairSeqs(hi) == Seqs(DictKeys \X Encoded, 0, hi)

\* The bencoding of key/value pairs in the order given.
RECURSIVE WritePairs(_)
WritePairs(pairs) ==
    IF pairs = <<>> THEN <<>>
    ELSE EncStr(Head(pairs)[1]) \o Head(pairs)[2].enc \o WritePairs(Tail(pairs))

\* Lists of up to two elements, complete and with the final 'e' missing.
ListInputs ==
    {<<Array>> \o a.enc \o b.enc \o tail :
        a \in Encoded, b \in Encoded \cup {[enc |-> <<>>]},
        tail \in {<<End>>, <<>>}}

DecodeInit ==
    /\ \/ /\ input \in IntInputs \cup StrInputs \cup AnyInputs \cup ListInputs
          /\ origin = Raw
       \/ \E pairs \in PairSeqs(MaxPairs) :
             /\ input = <<Dict>> \o WritePairs(pairs) \o <<End>>
             /\ origin = [kind |-> "dict", pairs |-> pairs]
       \/ \E pairs \in PairSeqs(1), k \in NotStrings, v \in Encoded :
             /\ input = <<Dict>> \o WritePairs(pairs) \o k.enc \o v.enc
                        \o <<End>>
             /\ origin = [kind |-> "badkey", pairs |-> pairs]
    /\ decoded = [op |-> "none"]
    /\ DlIdle /\ InfIdle /\ CallIdle

\* decoder.New(input).Decode()
CallDecode ==
    /\ decoded.op = "none"
    /\ decoded' = [op |-> "Decode", r |-> Decode(input, 0)]
    /\ UNCHANGED <<input, origin, dlVars, infVars, callVars>>

DecodeNext == CallDecode

DecodeSpec == DecodeInit /\ [][DecodeNext]_vars

\* The bytes of an input 'i' s 'e' between the 'i' and the final 'e'.
IntBody == SubSeq(input, 2, Len(input) - 1)

\* s is "0", or an optional '-' and digits that do not start with '0'.
Canonical(str) ==
    \/ str = <<"0">>
    \/ LET digs == IF str # <<>> /\ str[1] = "-" THEN Tail(str) ELSE str IN
       /\ digs # <<>>
       /\ \A k \in 1..Len(digs) : digs[k] \in Digits
       /\ digs[1] # "0"

\* C7: Decode of 'i' s 'e' succeeds, with the numeric value of s, exactly
\* when s is a canonical integer.
C7_CanonicalIntegers ==
    (decoded.op = "Decode" /\ input \in IntInputs) =>
        IF Canonical(IntBody)
        THEN decoded.r = Ok(IntVal(Atoi(IntBody).n), Len(input))
        ELSE decoded.r.st = "err"

\* The place of the first ':' of an input '<n>:<bytes>'.
Colon == CHOOSE k \in 1..Len(input) :
            input[k] = ":" /\ \A g \in 1..(k - 1) : input[g] # ":"

\* C8: decoding '<n>:<bytes>' returns exactly the next n bytes and leaves the
\* cursor n bytes further, and fails when the length prefix is not numeric
\* or fewer than n bytes follow the ':'.
C8_ByteStrings ==
    (decoded.op = "Decode" /\ input \in StrInputs) =>
        LET prefix == SubSeq(input, 1, Colon - 1)
            rest   == SubSeq(input, Colon + 1, Len(input))
            n      == DecimalVal(prefix)
        IN  IF (\A k \in 1..Len(prefix) : prefix[k] \in Digits) /\ Len(rest) >= n
            THEN decoded.r = Ok(StrVal(SubSeq(rest, 1, n)), Colon + n)
            ELSE decoded.r.st = "err"

----------------------------------------------------------------------------
(* NewTorrentClient: the bytes the info hash is computed over *)

\* The bytes of the model in ascending byte order.
ByteOrder ==
    <<" ", "0", "1", "2", "3", "4", "5", "6", "7", "8", "9", ":",
      "a", "b", "c", "d", "e", "g", "h", "i", "l", "m", "n", "o", "p", "r",
      "s", "t", "u", "v">>

Code(c) == CHOOSE k \in 1..Len(ByteOrder) : ByteOrder[k] = c

\* Byte-lexicographic order of two byte strings.
RECURSIVE LexLess(_, _)
LexLess(a, b) ==
    IF b = <<>> THEN FALSE
    ELSE IF a = <<>> THEN TRUE
    ELSE IF a[1] # b[1] THEN Code(a[1]) < Code(b[1])
    ELSE LexLess(Tail(a), Tail(b))

\* The byte strings of a set in byte-lexicographic order.
RECURSIVE SortKeys(_)
SortKeys(ks) ==
    IF ks = {} THEN <<>>
    ELSE LET least == CHOOSE k \in ks : \A o \in ks \ {k} : LexLess(k, o)
         IN  <<least>> \o SortKeys(ks \ {least})

RECURSIVE EncPairs(_, _)
EncPairs(keys, vals) ==
    IF keys = <<>> THEN <<>>
    ELSE EncStr(Head(keys)) \o EncVal(vals[Head(keys)])
         \o EncPairs(Tail(keys), vals)

KName        == <<"n", "a", "m", "e">>
KPieces      == <<"p", "i", "e", "c", "e", "s">>
KLength      == <<"l", "e", "n", "g", "t", "h">>
KPieceLength == <<"p", "i", "e", "c", "e", " ", "l", "e", "n", "g", "t", "h">>
KPrivate     == <<"p", "r", "i", "v", "a", "t", "e">>
KSource      == <<"s", "o", "u", "r", "c", "e">>

\* MetaInfo, lines 24-29: the bencode keys of the struct's fields.
MetaInfoKeys == {KName, KPieces, KLength, KPieceLength}

\* bencode.Unmarshal into a MetaInfo, lines 54-57: the fields take the values
\* of their keys, the dictionary's other keys have no field and are dropped.
Unmarshal(dict) ==
    [Name        |-> dict[KName].s,
     Pieces      |-> dict[KPieces].s,
     Length      |-> dict[KLength].n,
     PieceLength |-> dict[KPieceLength].n]

\* The value Marshal writes for the field with this key.
FieldOf(info, key) ==
    CASE key = KName        -> StrVal(info.Name)
      [] key = KPieces      -> StrVal(info.Pieces)
      [] key = KLength      -> IntVal(info.Length)
      [] key = KPieceLength -> IntVal(info.PieceLength)

\* encodeInfo, lines 70-74: bencode.Marshal of the struct, a dictionary of
\* its fields sorted by key.
encodeInfo(info) ==
    <<"d">>
    \o EncPairs(SortKeys(MetaInfoKeys), [k \in MetaInfoKeys |-> FieldOf(info, k)])
    \o <<"e">>

\* The canonical bencoding of a dictionary of integers and byte strings.
CanonicalEncoding(dict) ==
    <<"d">> \o EncPairs(SortKeys(DOMAIN dict), dict) \o <<"e">>

\* Keys an info dictionary may hold besides the four of MetaInfo.
ExtraEntries ==
    { <<>>,
      (KPrivate :> IntVal(1)),
      (KSource :> StrVal(<<"a">>)),
      (KPrivate :> IntVal(1)) @@ (KSource :> StrVal(<<"a">>)) }

InfoDicts ==
    { (KName :> StrVal(nm)) @@ (KPieces :> StrVal(ps))
      @@ (KLength :> IntVal(ln)) @@ (KPieceLength :> IntVal(pl)) @@ extra
      : nm \in Seqs({"a", "b"}, 1, MaxNameLen),
        ps \in {<<>>, [k \in 1..20 |-> "h"]},
        ln \in {0, 7, 120},
        pl \in {1, 16},
        extra \in ExtraEntries }

InfoInit ==
    /\ infoDict \in InfoDicts
    /\ hashed = [st |-> "none"]
    /\ DlIdle /\ DecIdle /\ CallIdle

\* NewTorrentClient, lines 47-68.
NewTorrentClient ==
    /\ hashed.st = "none"
    /\ \/ hashed' = [st |-> "err"]        \* os.Open or bencode.Unmarshal fails
       \/ hashed' = [st |-> "ok", bytes |-> encodeInfo(Unmarshal(infoDict))]
    /\ UNCHANGED <<infoDict, dlVars, decVars, callVars>>

InfoNext == NewTorrentClient

InfoSpec == InfoInit /\ [][InfoNext]_vars

\* C9: the bytes handed to SHA-1 are the canonical bencoding of the whole
\* info dictionary of the metadata file, further keys included.
C9_InfoHashInput ==
    hashed.st = "ok" => hashed.bytes = CanonicalEncoding(infoDict)

\* The same for the info dictionaries that hold the four keys only.
C9_FourKeysOnly ==
    (hashed.st = "ok" /\ DOMAIN infoDict = MetaInfoKeys) =>
        hashed.bytes = CanonicalEncoding(infoDict)

----------------------------------------------------------------------------
(* Dictionaries *)

\* The map a dictionary written from these pairs stands for: each key with
\* the value that follows its last occurrence.
MapOf(pairs) ==
    [k \in {pairs[i][1] : i \in 1..Len(pairs)} |->
        LET last == CHOOSE i \in 1..Len(pairs) :
                       /\ pairs[i][1] = k
                       /\ \A j \in (i + 1)..Len(pairs) : pairs[j][1] # k
        IN  pairs[last][2].val]

\* C11: decoding a dictionary fails when a decoded key is not a byte string
\* (an integer, a list or a dictionary in key position), and otherwise maps
\* each byte-string key to the value decoded right after it, up to the 'e'.
C11_DictionaryKeys ==
    decoded.op = "Decode" =>
        /\ origin.kind = "dict" =>
              decoded.r = Ok(DictVal(MapOf(origin.pairs)), Len(input))
        /\ origin.kind = "badkey" => decoded.r.st = "err"

\* A dictionary with a good pair and then a key that is no byte string was
\* decoded.
C11_Witness ==
    /\ decoded.op = "Decode" /\ origin.kind = "badkey"
    /\ Len(origin.pairs) = 1 /\ decoded.r.st = "err"

----------------------------------------------------------------------------
(* Request messages *)

\* The Requests sent for piece p, in the order sent.
RequestsOf(p) == SelectSeq(Requests, LAMBDA m : m.Index = p)

Min(a, b) == IF a <= b THEN a ELSE b

\* The sum of the lengths the first n of these Requests ask for.
RECURSIVE Asked(_, _)
Asked(reqs, n) == IF n = 0 THEN 0 ELSE Asked(reqs, n - 1) + reqs[n].Length

\* C12: for a piece of actual length P >= 1 requestPiece sends exactly
\* ceil(P / 16384) Requests; the i-th (from 0) is the 17-byte message with
\* length prefix 13, id 6, the piece index, offset i * 16384 and length 16384,
\* except the last, whose length is what remains of P. Every length is in
\* 1..16384, the ranges are contiguous and the lengths sum to P (20000 gives
\* 16384 then 3616).
C12_RequestMessages ==
    \A k \in 1..Len(pieceSizes) :
        LET p     == k - 1
            P     == pieceSizes[k]
            count == (P + 16383) \div 16384
            got   == RequestsOf(p)
        IN  P >= 1 =>
              /\ Len(got) <= count
              /\ pieceIndex > p => Len(got) = count /\ Asked(got, count) = P
              /\ \A i \in 1..Len(got) :
                    /\ got[i].size = 17 /\ got[i].LengthPrefix = 13
                    /\ got[i].ID = 6 /\ got[i].Index = p
                    /\ got[i].Begin = (i - 1) * 16384
                    /\ got[i].Begin = Asked(got, i - 1)
                    /\ got[i].Length = Min(16384, P - (i - 1) * 16384)
                    /\ got[i].Length \in 1..16384
              /\ (P = 20000 /\ Len(got) = 2) =>
                    got[1].Length = 16384 /\ got[2].Length = 3616

\* requestPiece returned for a first piece of 20000 bytes.
C12_Witness ==
    /\ pieceIndex > 0 /\ pieceSizes[1] = 20000
    /\ Len(RequestsOf(0)) = 2

----------------------------------------------------------------------------
(* One call of waitForMessage *)

MessageIds == {Bitfield, Unchoke}

\* A frame is on the wire, and waitForMessage is about to be called.
WaitInit ==
    /\ \E messageId \in MessageIds, L \in WaitFrameLens, id \in FrameIds :
          call = [op |-> "pending", messageId |-> messageId,
                  L |-> L, id |-> id]
    /\ DlIdle /\ DecIdle /\ InfIdle

CallWaitForMessage ==
    /\ call.op = "pending"
    /\ \E o \in CallOutcomes(call.messageId, call.L, call.id) :
          call' = [op |-> "returned", messageId |-> call.messageId,
                   L |-> call.L, id |-> call.id, out |-> o]
    /\ UNCHANGED <<dlVars, decVars, infVars>>

WaitNext == CallWaitForMessage

WaitSpec == WaitInit /\ [][WaitNext]_vars

\* The call returned without a read error, for a frame that has a body.
Returned == call.op = "returned" /\ ~call.out.io /\ call.L >= 1

\* C13: waitForMessage consumes exactly one frame (4 length bytes and L body
\* bytes) and returns success iff the first body byte is the expected id, an
\* error when it differs; the next read starts right after the frame.
C13_OneFrameConsumed ==
    Returned =>
        /\ call.out.ret \in {"nil", "err"}
        /\ call.out.ret = "nil" <=> call.id = call.messageId
        /\ call.out.consumed = 4 + call.L

\* The same when both reads deliver all the bytes asked for.
WholeReads ==
    (Returned /\ call.out = waitForMessage(call.messageId, call.L, call.id,
                                           4, call.L)) =>
        /\ call.out.ret = "nil" <=> call.id = call.messageId
        /\ call.out.ret = "err" <=> call.id # call.messageId
        /\ call.out.consumed = 4 + call.L

----------------------------------------------------------------------------
(* Blocks appended *)

Chunks == data \o pieceData

\* C14: for each Request, the block appended is the body of the next framed
\* message without its first 9 bytes (it starts 4 + 9 bytes after the frame's
\* first byte and has L - 9 bytes), whatever index and offset the message
\* echoes; the buffer written to the file is the concatenation of those
\* blocks in request order and of nothing else.
C14_PayloadAppended ==
    /\ \A k \in 1..Len(Chunks) :
          /\ Chunks[k].req = <<Requests[k].Index,
                               Requests[k].Begin \div BlockSize>>
          /\ Chunks[k].aligned =>
                Chunks[k].at = 4 + 9 /\ Chunks[k].len = Chunks[k].body - 9
    /\ fileWrites = 1 => file = Chunks /\ Len(file) = Len(Requests)

\* The part of C14 that does not depend on how the length prefix arrives:
\* one block per Request, in request order, and the file is those blocks.
BlocksInRequestOrder ==
    /\ \A k \in 1..Len(Chunks) :
          Chunks[k].req = <<Requests[k].Index,
                            Requests[k].Begin \div BlockSize>>
    /\ fileWrites = 1 => file = Chunks /\ Len(file) = Len(Requests)

----------------------------------------------------------------------------
(* The number of pieces *)

\* c is the least number of pieces of b bytes that hold a bytes.
IsCeiling(c, a, b) ==
    IF a = 0 THEN c = 0 ELSE (c - 1) * b < a /\ a <= c * b

\* C15: the number of pieces Download iterates over is
\* ceil(fileLength / pieceLength) for every fileLength >= 0 and
\* pieceLength >= 1 (4 for 1000000 / 262144, the last piece having 213568
\* bytes), and no Request is sent for fileLength = 0.
C15_PieceCount ==
    /\ pc \in {"pieces", "blocks", "response", "write"} =>
          /\ IsCeiling(pieceCount, Length, PieceLength)
          /\ pieceIndex <= pieceCount
          /\ Len(pieceSizes) =
                IF pc = "pieces" \/ pc = "write" THEN pieceIndex
                ELSE pieceIndex + 1
    /\ pc = "write" \/ result = "ok" => pieceIndex = pieceCount
    /\ Length = 0 => Sends("request") = 0
    /\ PieceCount(1000000, 262144) = 4
    /\ LastPieceSize(1000000, 262144) = 213568

\* Download went through all pieces of a file whose length is no multiple of
\* the piece length.
C15_Witness ==
    /\ pc = "write" /\ pieceCount = 2 /\ pieceIndex = 2
    /\ Length % PieceLength # 0

----------------------------------------------------------------------------
(* The handshake sent *)

\* C16: the handshake the client sends is exactly 68 bytes: byte 19, the 19
\* bytes "BitTorrent protocol", 8 zero bytes, the 20-byte info hash and the
\* 20-byte local peer id, in this order; it is written before any byte of
\* the peer's reply is read.
C16_HandshakeSent ==
    /\ \A k \in 1..Len(sent) :
          sent[k].type = "handshake" =>
             LET b == sent[k].bytes IN
             /\ Len(b) = 68
             /\ b[1] = [v |-> 19]
             /\ \A i \in 1..19 :
                   b[1 + i] =
                     [c |-> <<"B", "i", "t", "T", "o", "r", "r", "e", "n",
                              "t", " ", "p", "r", "o", "t", "o", "c", "o",
                              "l">>[i]]
             /\ \A i \in 21..28 : b[i] = [v |-> 0]
             /\ \A i \in 1..20 : b[28 + i] = [hash |-> i]
             /\ \A i \in 1..20 :
                   b[48 + i] =
                     [c |-> <<"0", "0", "1", "1", "2", "2", "3", "3", "4",
                              "4", "5", "5", "6", "6", "7", "7", "8", "8",
                              "9", "9">>[i]]
    /\ (pc = "hs_read" \/ hsReply # NoReply \/ waitBitfield # NoWait) =>
          Sends("handshake") = 1 /\ sent[1].type = "handshake"

\* The peer's handshake reply was read.
C16_Witness ==
    /\ hsReply # NoReply /\ Len(sent) >= 1 /\ sent[1].type = "handshake"

----------------------------------------------------------------------------
(* Decode and the bencode grammar *)

\* The bencode grammar, read from position pos: an integer 'i' s 'e' with s
\* canonical, a byte string <n>:<n bytes>, a list 'l' elements 'e', a
\* dictionary 'd' (byte string, element)* 'e'. The result is the value of the
\* first complete element and the position right after it.
GrammarInt(in, pos) ==
    LET rb == ReadBytes(in, pos, "e") IN
    IF ~rb.ok THEN Fail(pos)
    ELSE LET str == SubSeq(rb.bytes, 1, Len(rb.bytes) - 1) IN
         IF ~Canonical(str) THEN Fail(pos)
         ELSE Ok(IntVal(IF str[1] = "-" THEN 0 - DecimalVal(Tail(str))
                        ELSE DecimalVal(str)), rb.pos)

GrammarStr(in, pos) ==
    LET rb == ReadBytes(in, pos, ":") IN
    IF ~rb.ok THEN Fail(pos)
    ELSE LET len == SubSeq(rb.bytes, 1, Len(rb.bytes) - 1) IN
         IF len = <<>> \/ \E k \in 1..Len(len) : len[k] \notin Digits
         THEN Fail(pos)
         ELSE IF Len(in) - rb.pos < DecimalVal(len) THEN Fail(pos)
         ELSE Ok(StrVal(SubSeq(in, rb.pos + 1, rb.pos + DecimalVal(len))),
                 rb.pos + DecimalVal(len))

RECURSIVE Grammar(_, _), GrammarList(_, _, _), GrammarDict(_, _, _)

GrammarList(in, pos, list) ==
    IF pos >= Len(in) THEN Fail(pos)
    ELSE IF in[pos + 1] = "e" THEN Ok(ListVal(list), pos + 1)
    ELSE LET v == Grammar(in, pos) IN
         IF v.st # "ok" THEN Fail(pos)
         ELSE GrammarList(in, v.pos, Append(list, v.val))

GrammarDict(in, pos, m) ==
    IF pos >= Len(in) THEN Fail(pos)
    ELSE IF in[pos + 1] = "e" THEN Ok(DictVal(m), pos + 1)
    ELSE IF in[pos + 1] \notin Digits THEN Fail(pos)
    ELSE LET k == GrammarStr(in, pos) IN
         IF k.st # "ok" THEN Fail(pos)
         ELSE LET v == Grammar(in, k.pos) IN
              IF v.st # "ok" THEN Fail(pos)
              ELSE GrammarDict(in, v.pos,
                               [x \in DOMAIN m \cup {k.val.s} |->
                                   IF x = k.val.s THEN v.val ELSE m[x]])

Grammar(in, pos) ==
    IF pos >= Len(in) THEN Fail(pos)
    ELSE CASE in[pos + 1] \in Digits -> GrammarStr(in, pos)
           [] in[pos + 1] = "i"      -> GrammarInt(in, pos + 1)
           [] in[pos + 1] = "l"      -> GrammarList(in, pos + 1, <<>>)
           [] in[pos + 1] = "d"      -> GrammarDict(in, pos + 1, <<>>)
           [] OTHER                  -> Fail(pos)

\* C17: Decode agrees with the bencode grammar: it returns the value of the
\* first complete bencoded element (nested and empty lists and dictionaries
\* included, list elements in input order) with the cursor right after it,
\* and fails with a decode error otherwise: on empty input, on any other
\* lookahead byte, on a list or dictionary whose 'e' is missing.
C17_DecodeAgreesWithGrammar ==
    decoded.op = "Decode" =>
        IF Grammar(input, 0).st = "ok"
        THEN decoded.r = Grammar(input, 0)
        ELSE decoded.r.st = "err"

\* The part of C17 that holds: every input the grammar accepts is decoded to
\* its value, and the three failures the design names are decode errors.
DecodeOfValidInput ==
    decoded.op = "Decode" =>
        /\ Grammar(input, 0).st = "ok" => decoded.r = Grammar(input, 0)
        /\ input = <<>> => decoded.r.st = "err"
        /\ (input # <<>> /\ input[1] \notin Digits \cup {"i", "l", "d"}) =>
              decoded.r.st = "err"
        /\ (input # <<>> /\ input[1] \in {"l", "d"}
            /\ \A k \in 1..Len(input) : input[k] # "e") =>
              decoded.r.st = "err"

----------------------------------------------------------------------------
(* Peer addresses *)

\* Entry k (from 1) of a compact peer string.
Entry(k) == SubSeq(peersBytes, 6 * k - 5, 6 * k)

\* C18: parsePeers maps a compact peer string whose length is a multiple of
\* 6 to the list, in input order, of len/6 addresses "b0.b1.b2.b3:port" with
\* port = 256 * b4 + b5 ([192,168,1,1,0x1A,0xE1] gives "192.168.1.1:6881"),
\* and Download connects only to the first of them.
C18_PeerAddresses ==
    /\ (pc # "start" /\ Len(peersBytes) % 6 = 0) =>
          /\ Len(Peers) = Len(peersBytes) \div 6
          /\ \A k \in 1..Len(Peers) :
                Peers[k] =
                   Itoa(Entry(k)[1]) \o <<".">> \o Itoa(Entry(k)[2])
                   \o <<".">> \o Itoa(Entry(k)[3]) \o <<".">>
                   \o Itoa(Entry(k)[4]) \o <<":">>
                   \o Itoa(256 * Entry(k)[5] + Entry(k)[6])
          /\ (Peers # <<>> /\ Entry(1) = <<192, 168, 1, 1, 26, 225>>) =>
                Peers[1] = <<"1", "9", "2", ".", "1", "6", "8", ".", "1",
                             ".", "1", ":", "6", "8", "8", "1">>
    /\ opened <= 1 /\ Len(dialed) <= 1 /\ opened <= Len(dialed)
    /\ \A k \in 1..Len(dialed) : dialed[k] = Peers[1]

\* The tracker named two peers and the client has connected.
C18_Witness ==
    /\ Len(peersBytes) = 12 /\ Len(Peers) = 2
    /\ opened = 1 /\ dialed = <<Peers[1]>>
    /\ Peers[2] = <<"1", "0", ".", "0", ".", "0", ".", "2", ":", "8", "0">>

----------------------------------------------------------------------------
(* How Download ends *)

\* C19: whatever frames the peer sends, Download ends in success or in a
\* returned error, never in an out-of-range index or slice: a zero-length
\* frame (keep-alive) while Bitfield or Unchoke is awaited, and a response
\* whose body is shorter than 9 bytes, each lead to a returned error. (Stated
\* for the runs in which every read delivered whole what the peer had sent.)
C19_NoAbnormalTermination ==
    (pc = "done" /\ hsReply # NoReply /\ ~desync) => result \in {"ok", "err"}

RECURSIVE BlocksOf(_)
BlocksOf(sizes) ==
    IF sizes = <<>> THEN 0
    ELSE (Head(sizes) + 16383) \div 16384 + BlocksOf(Tail(sizes))

\* C20: when the peer completes the handshake, sends Bitfield and Unchoke and
\* answers every Request with one well-formed Piece frame, Download ends
\* with the file written, having sent one Request per block of every piece,
\* and it never waits for the response to a Request it did not send. (Ends
\* by a reported failure of a local read or write are left aside.)
C20_GoodPeerCompletes ==
    /\ pc = "response" => Len(Requests) = Len(Chunks) + 1
    /\ (pc = "done" /\ hsReply # NoReply /\ peerGood /\ result # "err") =>
          /\ result = "ok" /\ fileWrites = 1
          /\ Len(pieceSizes) = pieceCount
          /\ Len(Requests) = BlocksOf(pieceSizes)

\* The same for the runs in which, besides, every read delivered whole what
\* the peer had sent.
GoodPeerWholeReads ==
    /\ pc = "response" => Len(Requests) = Len(Chunks) + 1
    /\ (pc = "done" /\ hsReply # NoReply /\ WellBehavedPeer /\ peerGood
        /\ result # "err") =>
          /\ result = "ok" /\ fileWrites = 1
          /\ Len(pieceSizes) = pieceCount
          /\ Len(Requests) = BlocksOf(pieceSizes)

====
